---- MODULE Spec2Model ----
(***************************************************************************)
(* Model of the metric engine of semeval2026-task2-eval/eval.py:           *)
(* _pearson, _mae, task1_correlation and task2_correlation.                *)
(*                                                                         *)
(* Numbers.  A float is a record [k, n, d]: "nan", "pinf", "ninf" or the   *)
(* finite rational n/d in lowest terms ("unset" marks a local that was     *)
(* never assigned because the call raised first).  A p-value is a record   *)
(* [k, n, a, b]: "none" (Python None), "nan", or the number n/(a + b*E)    *)
(* where E = 1e10 is the reciprocal of the literal 1e-10 of eval.py; E is  *)
(* kept symbolic because it does not fit the model checker's integers.     *)
(* User identifiers are modelled by their rank in sorted order.            *)
(*                                                                         *)
(* The module also models format_checker.py (run_format_check) and the     *)
(* steps of eval_interface.py (evaluate_submission) over small CSV files.  *)
(***************************************************************************)
EXTENDS Integers, Sequences, FiniteSets, TLC

\* Largest number of observations handed to one call.
MaxObs == 3
\* Resolution of the Pearson coefficient: r is kept to 1/RScale.
RScale == 100
\* Largest number of data rows in a submission, a template or a labels file.
MaxRows == 2

\* The finite values a prediction or a label takes in the model.
Vals == {1, 2}
\* scipy.stats.pearsonr, two samples holding a NaN: p is 1.0 in the releases
\* with the plain n == 2 shortcut and NaN in the releases that mask it.
ScipyVariants == {"p_one", "p_nan"}

VARIABLES
  scipy_p2,          \* which pearsonr behaviour the installed scipy has
  user_ids,          \* argument user_ids (ranks of the user identifiers)
  predictions,       \* argument predictions
  labels,            \* argument labels
  pc,                \* "input", "task1" (after task1_correlation), "task2"
  outcome,           \* "none", "returned" or "raised"
  exc,               \* the exception type when outcome = "raised"
  unique_users,      \* eval.py:67
  per_user_r,        \* eval.py:68
  per_user_p,        \* eval.py:69
  r_vals,            \* eval.py:70
  pearson_users,     \* the users whose group eval.py:86 handed to _pearson
  p_vals,            \* eval.py:71
  r_within,          \* eval.py:92
  p_within,          \* eval.py:93
  user_means_pred,   \* eval.py:96
  user_means_lab,    \* eval.py:97
  r_between,         \* eval.py:107
  p_between,         \* eval.py:107
  mae_within_list,   \* eval.py:110 (the list, before line 116 rebinds the name)
  mae_within,        \* eval.py:116
  mae_between,       \* eval.py:117
  r_composite,       \* eval.py:126
  mae_composite,     \* eval.py:129
  task2_calls        \* records returned by task2_correlation, by user_ids argument

VARIABLES
  task,                     \* argument task
  submission,               \* the file at submission_path
  template,                 \* the template file of the task in assets_dir
  labels_file,              \* the file at labels_path
  step,                     \* where the run is: "start", "load", "loop", "metrics", "end"
  format_runs,              \* the return codes of the runs of run_format_check
  printed,                  \* what the last run of run_format_check printed
  template_keys,            \* eval_interface.py:102
  sub_map,                  \* eval_interface.py:105
  labels_map,               \* eval_interface.py:113
  todo,                     \* the keys of sorted(template_keys) still to visit
  row_users,                \* users, eval_interface.py:129
  row_texts,                \* texts, eval_interface.py:130
  row_preds,                \* preds, eval_interface.py:127
  row_labs,                 \* labs, eval_interface.py:128
  missing_submission_keys,  \* eval_interface.py:133
  missing_label_keys,       \* eval_interface.py:132
  status                    \* how evaluate_submission ended ("none" while it runs)

files == <<task, submission, template, labels_file>>

loaded == <<template_keys, sub_map, labels_map, todo>>

arrays == <<row_users, row_texts, row_preds, row_labs, missing_submission_keys,
            missing_label_keys>>

interface_vars == <<files, step, format_runs, printed, loaded, arrays, status>>

core_vars == <<scipy_p2, user_ids, predictions, labels, pc, outcome, exc, unique_users,
          per_user_r, per_user_p, r_vals, pearson_users, p_vals, r_within, p_within,
          user_means_pred, user_means_lab, r_between, p_between, mae_within_list,
          mae_within, mae_between, r_composite, mae_composite, task2_calls>>

vars == <<core_vars, interface_vars>>

-----------------------------------------------------------------------------
\* Integer helpers.

Abs(i) == IF i < 0 THEN -i ELSE i

Sign(i) == IF i < 0 THEN -1 ELSE IF i > 0 THEN 1 ELSE 0

RECURSIVE GCD(_, _)
GCD(a, b) == IF b = 0 THEN a ELSE GCD(b, a % b)

RECURSIVE SqrtSearch(_, _, _)
SqrtSearch(n, lo, hi) ==
  IF lo >= hi THEN lo
  ELSE IF ((lo + hi + 1) \div 2) * ((lo + hi + 1) \div 2) <= n
       THEN SqrtSearch(n, (lo + hi + 1) \div 2, hi)
       ELSE SqrtSearch(n, lo, ((lo + hi + 1) \div 2) - 1)

\* Largest k with k*k <= n.
ISqrt(n) == SqrtSearch(n, 0, IF n < 40000 THEN n ELSE 40000)

RECURSIVE IntSum(_)
IntSum(xs) == IF xs = <<>> THEN 0 ELSE Head(xs) + IntSum(Tail(xs))

MinOf(S) == CHOOSE m \in S : \A x \in S : m <= x

-----------------------------------------------------------------------------
\* Floats.

NaN == [k |-> "nan", n |-> 0, d |-> 1]
Unset == [k |-> "unset", n |-> 0, d |-> 1]

Reduced(n, d, g) == [k |-> "fin", n |-> n \div g, d |-> d \div g]

Rat(n, d) ==
  IF d < 0 THEN Reduced(-n, -d, GCD(Abs(n), Abs(d))) ELSE Reduced(n, d, GCD(Abs(n), Abs(d)))

Num(i) == [k |-> "fin", n |-> i, d |-> 1]

IsNaN(x) == x.k = "nan"
IsFin(x) == x.k = "fin"

\* IEEE ==: a NaN equals nothing.
FEq(x, y) == IsFin(x) /\ IsFin(y) /\ x = y

FAdd(x, y) == IF IsFin(x) /\ IsFin(y) THEN Rat(x.n * y.d + y.n * x.d, x.d * y.d) ELSE NaN
FSub(x, y) == IF IsFin(x) /\ IsFin(y) THEN Rat(x.n * y.d - y.n * x.d, x.d * y.d) ELSE NaN
FMul(x, y) == IF IsFin(x) /\ IsFin(y) THEN Rat(x.n * y.n, x.d * y.d) ELSE NaN
FAbs(x) == IF IsFin(x) THEN [x EXCEPT !.n = Abs(x.n)] ELSE x
FDivInt(x, c) == IF IsFin(x) THEN Rat(x.n, x.d * c) ELSE NaN
FSign(x) == IF IsFin(x) THEN Num(Sign(x.n)) ELSE NaN

HasNaN(xs) == \E i \in 1..Len(xs) : IsNaN(xs[i])

RECURSIVE FSum(_)
FSum(xs) == IF xs = <<>> THEN Num(0) ELSE FAdd(Head(xs), FSum(Tail(xs)))

DropNaN(xs) == SelectSeq(xs, LAMBDA x : ~IsNaN(x))

\* np.mean: NaN for an empty array (a RuntimeWarning, no exception) and for
\* an array holding a NaN.
NpMean(xs) == IF xs = <<>> THEN NaN ELSE FDivInt(FSum(xs), Len(xs))

\* np.nanmean: the mean of the entries that are not NaN; NaN when none is left.
NpNanMean(xs) == NpMean(DropNaN(xs))

SquaredDeviations(xs, m) ==
  [i \in 1..Len(xs) |-> FMul(FSub(xs[i], m), FSub(xs[i], m))]

\* np.var: mean(|x - mean(x)|^2).
NpVar(xs) == NpMean(SquaredDeviations(xs, NpMean(xs)))

\* np.var(...) == 0.0
VarIsZero(xs) == FEq(NpVar(xs), Num(0))

-----------------------------------------------------------------------------
\* p-values: n / (a + b*E), E = 1e10.

PNone == [k |-> "none", n |-> 0, a |-> 1, b |-> 0]
PNaN == [k |-> "nan", n |-> 0, a |-> 1, b |-> 0]
PUnset == [k |-> "unset", n |-> 0, a |-> 1, b |-> 0]

PReduced(n, a, b, g) == [k |-> "num", n |-> n \div g, a |-> a \div g, b |-> b \div g]

PNum(n, a, b) == PReduced(n, a, b, GCD(GCD(n, a), b))

POne == [k |-> "num", n |-> 1, a |-> 1, b |-> 0]
PZero == [k |-> "num", n |-> 0, a |-> 1, b |-> 0]
\* The literal 1e-10 (eval.py:81, 83, 93).
P1em10 == [k |-> "num", n |-> 1, a |-> 0, b |-> 1]

\* q > p for two numeric p-values: q.n*(p.a + p.b*E) > p.n*(q.a + q.b*E).
\* The coefficients are far below E, so the E part decides first.
PGreater(q, p) ==
  \/ q.n * p.b - p.n * q.b > 0
  \/ (q.n * p.b - p.n * q.b = 0 /\ q.n * p.a - p.n * q.a > 0)

\* max(pv, 1e-10) left out: the p-value as it is.
PyMaxNoFloor(pv) == pv

\* Python's max(pv, 1e-10): the first argument unless the second is greater,
\* so a NaN first argument is returned as it is.
PyMaxFloor(pv) == IF pv.k = "num" /\ PGreater(P1em10, pv) THEN P1em10 ELSE pv

\* One term 1.0 / x of the generator of eval.py:93, as the fraction
\* (a + b*E)/d: "zerodiv" when Python raises ZeroDivisionError.
Reciprocal(x) ==
  IF x.k # "num" THEN [k |-> "nan", a |-> 0, b |-> 0, d |-> 1]
  ELSE IF x.n = 0 THEN [k |-> "zerodiv", a |-> 0, b |-> 0, d |-> 1]
  ELSE [k |-> "num", a |-> x.a, b |-> x.b, d |-> x.n]

LinAdd(h, t) ==
  [k |-> "num", a |-> h.a * t.d + t.a * h.d, b |-> h.b * t.d + t.b * h.d, d |-> h.d * t.d]

RECURSIVE ReciprocalSum(_)
ReciprocalSum(ts) ==
  IF ts = <<>> THEN [k |-> "num", a |-> 0, b |-> 0, d |-> 1]
  ELSE LinAdd(Head(ts), ReciprocalSum(Tail(ts)))

\* len(p_vals) / sum(...): Python raises ZeroDivisionError on 1.0/0.0 inside
\* the generator and on 0/0 (the sum of no terms is the int 0).
HarmonicFromSum(ts, s) ==
  IF \E i \in 1..Len(ts) : ts[i].k = "zerodiv" THEN [raised |-> TRUE, v |-> PUnset]
  ELSE IF \E i \in 1..Len(ts) : ts[i].k = "nan" THEN [raised |-> FALSE, v |-> PNaN]
  ELSE IF s.a = 0 /\ s.b = 0 THEN [raised |-> TRUE, v |-> PUnset]
  ELSE [raised |-> FALSE, v |-> PNum(Len(ts) * s.d, s.a, s.b)]

HarmonicFromTerms(ts) == HarmonicFromSum(ts, ReciprocalSum(ts))

\* float(len(p_vals) / sum(1.0 / max(pv, 1e-10) for pv in p_vals))
HarmonicMean(pvs) ==
  HarmonicFromTerms([i \in 1..Len(pvs) |-> Reciprocal(PyMaxFloor(pvs[i]))])

-----------------------------------------------------------------------------
\* scipy.stats.pearsonr, by its documented behaviour.

RECURSIVE DenProduct(_)
DenProduct(xs) == IF xs = <<>> THEN 1 ELSE Head(xs).d * DenProduct(Tail(xs))

Scaled(xs, L) == [i \in 1..Len(xs) |-> xs[i].n * (L \div xs[i].d)]

Shifted(raw, lo) == [i \in 1..Len(raw) |-> raw[i] - lo]

ShiftedToZero(raw) == Shifted(raw, MinOf({raw[i] : i \in 1..Len(raw)}))

\* The samples as integers: scaled by a common denominator and shifted to
\* start at 0, neither of which changes the correlation coefficient.
AsIntegers(xs) == ShiftedToZero(Scaled(xs, DenProduct(xs)))

Dot(X, Y) == IntSum([i \in 1..Len(X) |-> X[i] * Y[i]])

\* r from n*n*cov and n*n*var: truncated to 1/RScale, and exactly 1 or -1
\* when cov^2 = var(x)*var(y), that is when the samples are collinear.
CoefficientFromMoments(cov, vx, vy) ==
  Rat(Sign(cov) * ISqrt(((cov * cov * RScale) \div (vx * vy)) * RScale), RScale)

CoefficientOfIntegers(n, X, Y) ==
  CoefficientFromMoments(n * Dot(X, Y) - IntSum(X) * IntSum(Y),
                         n * Dot(X, X) - IntSum(X) * IntSum(X),
                         n * Dot(Y, Y) - IntSum(Y) * IntSum(Y))

\* The coefficient of two finite, non-constant samples.
PearsonCoefficient(x, y) == CoefficientOfIntegers(Len(x), AsIntegers(x), AsIntegers(y))

\* The two-sided p-value for n >= 3 finite samples: 0 at |r| = 1, 1 at r = 0,
\* decreasing in |r| in between (1 - |r|, which is the exact value for n = 4).
PearsonPValue(r) ==
  IF Abs(r.n) = r.d THEN PZero ELSE PNum(r.d - Abs(r.n), r.d, 0)

IsConstant(x) == \A i \in 1..Len(x) : FEq(x[i], x[1])

\* n = 2: r is the product of the signs of the two differences and p is 1.0.
TwoSamples(r, lib) ==
  [raised |-> FALSE, r |-> r, p |-> IF IsNaN(r) /\ lib = "p_nan" THEN PNaN ELSE POne]

WithPValue(r) == [raised |-> FALSE, r |-> r, p |-> PearsonPValue(r)]

\* pearsonr(x, y): ValueError below two samples; (nan, nan) for a constant
\* input (a ConstantInputWarning) and for n >= 3 samples holding a NaN.
pearsonr(x, y, lib) ==
  IF Len(x) < 2 THEN [raised |-> TRUE, r |-> Unset, p |-> PUnset]
  ELSE IF IsConstant(x) \/ IsConstant(y) THEN [raised |-> FALSE, r |-> NaN, p |-> PNaN]
  ELSE IF Len(x) = 2
       THEN TwoSamples(FMul(FSign(FSub(x[2], x[1])), FSign(FSub(y[2], y[1]))), lib)
  ELSE IF HasNaN(x) \/ HasNaN(y) THEN [raised |-> FALSE, r |-> NaN, p |-> PNaN]
  ELSE WithPValue(PearsonCoefficient(x, y))

-----------------------------------------------------------------------------
\* eval.py primitives.

\* eval.py:26
TooFewSamples(x) == Len(x) < 2

\* float(r), float(p) of eval.py:29-30; "exc" is the exception that escapes
\* _pearson, "" when none does.
FromPearsonr(res) ==
  IF res.raised THEN [exc |-> "ValueError", r |-> Unset, p |-> PUnset]
  ELSE [exc |-> "", r |-> res.r, p |-> res.p]

\* _pearson: (nan, None) below two samples, else pearsonr's (r, p).
_pearson(x, y, lib) ==
  IF TooFewSamples(x) THEN [exc |-> "", r |-> NaN, p |-> PNone]
  ELSE FromPearsonr(pearsonr(x, y, lib))

AbsDiffs(x, y) == [i \in 1..Len(x) |-> FAbs(FSub(x[i], y[i]))]

\* _mae: float(np.nanmean(np.abs(x_arr - y_arr)))
_mae(x, y) == NpNanMean(AbsDiffs(x, y))

-----------------------------------------------------------------------------
\* Fisher's z.  A finite z is kept by exp(2z): "exp2" is the ratio n/d,
\* "sqrt" the square root of n/d (the half sum of two finite z).

ZNaN == [k |-> "nan", n |-> 0, d |-> 1]
ZPosInf == [k |-> "pinf", n |-> 0, d |-> 1]
ZNegInf == [k |-> "ninf", n |-> 0, d |-> 1]

ZOf(kind, e) == [k |-> kind, n |-> e.n, d |-> e.d]

\* np.arctanh: NaN outside [-1, 1] and for NaN, +inf at 1, -inf at -1 (numpy
\* warns and does not raise); inside, exp(2z) = (1 + x)/(1 - x).
Arctanh(x) ==
  IF ~IsFin(x) \/ Abs(x.n) > x.d THEN ZNaN
  ELSE IF x.n = x.d THEN ZPosInf
  ELSE IF x.n = -x.d THEN ZNegInf
  ELSE ZOf("exp2", Rat(x.d + x.n, x.d - x.n))

\* 0.5 * (z_w + z_b): inf + -inf and anything with NaN is NaN.
HalfSum(zw, zb) ==
  IF zw.k = "nan" \/ zb.k = "nan" THEN ZNaN
  ELSE IF {zw.k, zb.k} = {"pinf", "ninf"} THEN ZNaN
  ELSE IF "pinf" \in {zw.k, zb.k} THEN ZPosInf
  ELSE IF "ninf" \in {zw.k, zb.k} THEN ZNegInf
  ELSE ZOf("sqrt", Rat(zw.n * zb.n, zw.d * zb.d))

TanhFromRoots(sp, sq) == Rat(sp - sq, sp + sq)

\* np.tanh: 1 at +inf, -1 at -inf, else (exp(2z) - 1)/(exp(2z) + 1), the
\* square roots taken to 1/RScale.
Tanh(z) ==
  IF z.k = "nan" THEN NaN
  ELSE IF z.k = "pinf" THEN Num(1)
  ELSE IF z.k = "ninf" THEN Num(-1)
  ELSE IF z.k = "exp2" THEN Rat(z.n - z.d, z.n + z.d)
  ELSE TanhFromRoots(ISqrt(z.n * RScale * RScale), ISqrt(z.d * RScale * RScale))

\* eval.py:123-126 and 128-129; the helper valid_for_arctanh of
\* eval.py:120-121 is never called, as in the source.
FisherBlend(a, b) == Tanh(HalfSum(Arctanh(a), Arctanh(b)))

-----------------------------------------------------------------------------
\* task1_correlation.

RECURSIVE SortedSeq(_)
SortedSeq(S) == IF S = {} THEN <<>> ELSE <<MinOf(S)>> \o SortedSeq(S \ {MinOf(S)})

\* np.unique(user_arr): the distinct users in sorted order.
UniqueUsers(ua) == SortedSeq({ua[i] : i \in 1..Len(ua)})

\* xs[user_arr == u]
Masked(xs, ua, u) ==
  LET F[i \in 0..Len(xs)] ==
        IF i = 0 THEN <<>>
        ELSE IF ua[i] = u THEN Append(F[i - 1], xs[i]) ELSE F[i - 1]
  IN F[Len(xs)]

Skip == [act |-> "skip", r |-> Unset, p |-> PUnset, exc |-> "", pearson |-> FALSE]

\* eval.py:80-83 with the sentinel p-value replaced by 1.0.
ConstantPredictionsAsPOne ==
  [act |-> "append", r |-> Num(0), p |-> POne, exc |-> "", pearson |-> FALSE]

\* eval.py:80-83: a constant-prediction group is scored r = 0.0, p = 1e-10.
ConstantPredictions ==
  [act |-> "append", r |-> Num(0), p |-> P1em10, exc |-> "", pearson |-> FALSE]

\* eval.py:87-90; float(p) raises TypeError when p is None.
Scored(res) ==
  IF res.exc # ""
  THEN [act |-> "raise", r |-> Unset, p |-> PUnset, exc |-> res.exc, pearson |-> TRUE]
  ELSE IF res.p.k = "none"
  THEN [act |-> "raise", r |-> Unset, p |-> PUnset, exc |-> "TypeError", pearson |-> TRUE]
  ELSE [act |-> "append", r |-> res.r, p |-> res.p, exc |-> "", pearson |-> TRUE]

\* eval.py:86-90
ScoreGroup(x, y, lib) == Scored(_pearson(x, y, lib))

\* The body of the loop with the two variance checks in the other order.
WithinGroupPredictionsFirst(x, y, lib) ==
  IF Len(x) < 2 THEN Skip
  ELSE IF VarIsZero(x) THEN ConstantPredictions
  ELSE IF VarIsZero(y) THEN Skip
  ELSE ScoreGroup(x, y, lib)

\* The body of the loop of eval.py:73-90 for one user, x = preds[mask] and
\* y = labs[mask]: what it appends, if anything.
WithinGroup(x, y, lib) ==
  IF Len(x) < 2 THEN Skip
  ELSE IF VarIsZero(y) THEN Skip
  ELSE IF VarIsZero(x) THEN ConstantPredictions
  ELSE ScoreGroup(x, y, lib)

\* One pass of the loop for user u, g its WithinGroup: the lists after it.
WithinStep(acc, g, u) ==
  IF acc.exc # "" \/ g.act = "skip" THEN acc
  ELSE IF g.act = "raise"
  THEN [acc EXCEPT !.exc = g.exc, !.called = Append(acc.called, u)]
  ELSE [r_vals |-> Append(acc.r_vals, g.r), p_vals |-> Append(acc.p_vals, g.p),
        kept |-> Append(acc.kept, u), exc |-> "",
        called |-> IF g.pearson THEN Append(acc.called, u) ELSE acc.called]

\* The loop of eval.py:73-90 over unique_users; it stops at the first raise.
WithinLoop(uu, ua, preds, labs, lib) ==
  LET F[i \in 0..Len(uu)] ==
        IF i = 0
        THEN [r_vals |-> <<>>, p_vals |-> <<>>, kept |-> <<>>, exc |-> "", called |-> <<>>]
        ELSE WithinStep(F[i - 1],
                        WithinGroup(Masked(preds, ua, uu[i]), Masked(labs, ua, uu[i]), lib),
                        uu[i])
  IN F[Len(uu)]

\* The users the loop of eval.py:98-103 visits.
BetweenUsers(uu, ua) == uu

\* The users the loop of eval.py:111-114 visits.
MaeUsers(uu, ua) == uu

\* eval.py:100-103: np.nanmean of each visited user's values.
UserMeans(xs, ua, us) == [i \in 1..Len(us) |-> NpNanMean(Masked(xs, ua, us[i]))]

\* eval.py:111-114: _mae of each visited user's predictions and labels.
UserMaes(preds, labs, ua, us) ==
  [i \in 1..Len(us) |-> _mae(Masked(preds, ua, us[i]), Masked(labs, ua, us[i]))]

\* per_user_r and per_user_p, as the list of their (user, value) items.
Items(users, vals) == [i \in 1..Len(users) |-> [user |-> users[i], v |-> vals[i]]]

\* The locals of a call before any of them is assigned.
NoLocals ==
  [outcome |-> "none", exc |-> "", unique_users |-> <<>>, per_user_r |-> <<>>,
   per_user_p |-> <<>>, r_vals |-> <<>>, pearson_users |-> <<>>, p_vals |-> <<>>,
   r_within |-> Unset,
   p_within |-> PUnset, user_means_pred |-> <<>>, user_means_lab |-> <<>>,
   r_between |-> Unset, p_between |-> PUnset, mae_within_list |-> <<>>,
   mae_within |-> Unset, mae_between |-> Unset, r_composite |-> Unset,
   mae_composite |-> Unset]

\* eval.py:119-141: the composites, and the dict is returned.
Task1Return(L) ==
  [L EXCEPT !.r_composite = FisherBlend(L.r_within, L.r_between),
            !.mae_composite = FisherBlend(L.mae_within, L.mae_between),
            !.outcome = "returned"]

\* eval.py:107-117, B the result of _pearson over the per-user means.
Task1Mae(L, B, ua, preds, labs) ==
  IF B.exc # "" THEN [L EXCEPT !.outcome = "raised", !.exc = B.exc]
  ELSE Task1Return(
         [L EXCEPT !.r_between = B.r,
                   !.p_between = B.p,
                   !.mae_within_list = UserMaes(preds, labs, ua, MaeUsers(L.unique_users, ua)),
                   !.mae_within = NpNanMean(
                       UserMaes(preds, labs, ua, MaeUsers(L.unique_users, ua))),
                   !.mae_between = _mae(L.user_means_pred, L.user_means_lab)])

\* eval.py:105-107
Task1Between(L, ua, preds, labs, lib) ==
  Task1Mae(L, _pearson(L.user_means_pred, L.user_means_lab, lib), ua, preds, labs)

\* eval.py:93-103, H the harmonic mean of eval.py:93.
Task1PWithin(L, H, ua, preds, labs, lib) ==
  IF H.raised THEN [L EXCEPT !.outcome = "raised", !.exc = "ZeroDivisionError"]
  ELSE Task1Between(
         [L EXCEPT !.p_within = H.v,
                   !.user_means_pred = UserMeans(preds, ua, BetweenUsers(L.unique_users, ua)),
                   !.user_means_lab = UserMeans(labs, ua, BetweenUsers(L.unique_users, ua))],
         ua, preds, labs, lib)

\* eval.py:92-93, W the lists the within-person loop has built.
Task1Averages(uu, W, ua, preds, labs, lib) ==
  IF W.exc # ""
  THEN [NoLocals EXCEPT !.outcome = "raised", !.exc = W.exc, !.unique_users = uu,
                        !.per_user_r = Items(W.kept, W.r_vals),
                        !.per_user_p = Items(W.kept, W.p_vals),
                        !.r_vals = W.r_vals, !.p_vals = W.p_vals,
                        !.pearson_users = W.called]
  ELSE Task1PWithin(
         [NoLocals EXCEPT !.unique_users = uu,
                          !.per_user_r = Items(W.kept, W.r_vals),
                          !.per_user_p = Items(W.kept, W.p_vals),
                          !.r_vals = W.r_vals, !.p_vals = W.p_vals,
                          !.pearson_users = W.called,
                          !.r_within = NpMean(W.r_vals)],
         HarmonicMean(W.p_vals), ua, preds, labs, lib)

\* eval.py:67-90
Task1Within(uu, ua, preds, labs, lib) ==
  Task1Averages(uu, WithinLoop(uu, ua, preds, labs, lib), ua, preds, labs, lib)

\* task1_correlation(user_ids, text_ids, predictions, labels): every local
\* of the call and how it ends.  text_ids is never read by the function.
task1_correlation(ua, preds, labs, lib) ==
  Task1Within(UniqueUsers(ua), ua, preds, labs, lib)

-----------------------------------------------------------------------------
\* task2_correlation.

NoUserIds == [none |-> TRUE, ids |-> <<>>]
UserIds(ids) == [none |-> FALSE, ids |-> ids]

Task2Dict(P, mae) == [exc |-> P.exc, result |-> [r |-> P.r, p |-> P.p, mae |-> mae]]

\* task2_correlation scoring the per-user means when user_ids is given (the
\* between-person metric the comment at its call site speaks of).
task2_correlation_grouped(uids, preds, labs, lib) ==
  IF uids.none THEN Task2Dict(_pearson(preds, labs, lib), _mae(preds, labs))
  ELSE Task2Dict(_pearson(UserMeans(preds, uids.ids, UniqueUsers(uids.ids)),
                          UserMeans(labs, uids.ids, UniqueUsers(uids.ids)), lib),
                 _mae(UserMeans(preds, uids.ids, UniqueUsers(uids.ids)),
                      UserMeans(labs, uids.ids, UniqueUsers(uids.ids))))

\* task2_correlation(user_ids, predictions, labels): the exception that
\* escapes ("" when none does) and the dict returned.
task2_correlation(uids, preds, labs, lib) ==
  Task2Dict(_pearson(preds, labs, lib), _mae(preds, labs))

-----------------------------------------------------------------------------
\* constants.py.

TEMPLATES_DEFAULT ==
  [subtask1 |-> "subtask1-template.csv",
   subtask2a |-> "subtask2a-template.csv",
   subtask2b |-> "subtask2b-template.csv"]

REQUIRED_COLUMNS_DEFAULT ==
  [subtask1 |-> <<"user_id", "text_id", "pred_valence", "pred_arousal">>,
   subtask2a |-> <<"user_id", "pred_state_change_valence", "pred_state_change_arousal">>,
   subtask2b |-> <<"user_id", "pred_dispo_change_valence", "pred_dispo_change_arousal">>]

KEY_COLUMNS_DEFAULT ==
  [subtask1 |-> <<"user_id", "text_id">>,
   subtask2a |-> <<"user_id">>,
   subtask2b |-> <<"user_id">>]

NULL_VALUES_DEFAULT == {"", "NULL", "null", "None", "none"}

PRED_COLS_DEFAULT ==
  [subtask1 |-> [valence |-> "pred_valence", arousal |-> "pred_arousal"],
   subtask2a |-> [valence |-> "pred_state_change_valence",
                  arousal |-> "pred_state_change_arousal"],
   subtask2b |-> [valence |-> "pred_dispo_change_valence",
                  arousal |-> "pred_dispo_change_arousal"]]

LABEL_COLS_DEFAULT ==
  [subtask1 |-> [valence |-> "valence", arousal |-> "arousal"],
   subtask2a |-> [valence |-> "state_change_valence", arousal |-> "state_change_arousal"],
   subtask2b |-> [valence |-> "disp_change_valence", arousal |-> "disp_change_arousal"]]

-----------------------------------------------------------------------------
\* Strings and CSV files.  A file is a record [exists, lines, header, rows]:
\* lines says whether the file has a first line, header is that line's
\* fields as written, and each row is the dict csv.DictReader makes of a
\* data line, a function from the header's fields to the cells.

Range(s) == {s[i] : i \in 1..Len(s)}

\* A path that names no file, and a file of zero bytes.
NoFile == [exists |-> FALSE, lines |-> FALSE, header |-> <<>>, rows |-> <<>>]

EmptyFile == [exists |-> TRUE, lines |-> FALSE, header |-> <<>>, rows |-> <<>>]

\* The strings of the model that carry no surrounding blank.
TrimmedStrings ==
  UNION {Range(REQUIRED_COLUMNS_DEFAULT[t]) : t \in DOMAIN REQUIRED_COLUMNS_DEFAULT}
    \cup {LABEL_COLS_DEFAULT[t][d] : t \in DOMAIN LABEL_COLS_DEFAULT, d \in {"valence", "arousal"}}
    \cup {"notes", "u1", "u2", "t1", "t2", "1", "2", "x"}
    \cup NULL_VALUES_DEFAULT \cup {"NONE"}

\* The ways a trimmed string is written with a blank around it.
Blanked(t) == {t, t \o " ", " " \o t}

\* str.strip().
Strip(s) == CHOOSE t \in TrimmedStrings : s \in Blanked(t)

\* str.lower().
Lower(s) ==
  IF s = "NULL" THEN "null"
  ELSE IF s \in {"None", "NONE"} THEN "none"
  ELSE s

\* str.startswith("pred").
StartsWithPred(s) ==
  \E t \in {"_valence", "_arousal", "_state_change_valence", "_state_change_arousal",
            "_dispo_change_valence", "_dispo_change_arousal"} : s = "pred" \o t

\* Python's None where a cell is looked up.
None == "<None>"

\* dict.get(c, default) of a row.
Get(row, c, default) == IF c \in DOMAIN row THEN row[c] ELSE default

\* The order of str: sorted() and np.unique compare the strings.
StringOrder == <<"", "t1", "t2", "u1", "u2">>

StrRank(s) == CHOOSE i \in 1..Len(StringOrder) : StringOrder[i] = s

\* Tuples of strings compare field by field.
RECURSIVE KeyLess(_, _)
KeyLess(a, b) ==
  IF a = <<>> THEN b # <<>>
  ELSE IF b = <<>> THEN FALSE
  ELSE IF Head(a) # Head(b) THEN StrRank(Head(a)) < StrRank(Head(b))
  ELSE KeyLess(Tail(a), Tail(b))

LeastKey(S) == CHOOSE k \in S : \A j \in S : j = k \/ KeyLess(k, j)

\* sorted(keys).
RECURSIVE SortedKeys(_)
SortedKeys(S) ==
  IF S = {} THEN <<>> ELSE <<LeastKey(S)>> \o SortedKeys(S \ {LeastKey(S)})

-----------------------------------------------------------------------------
\* format_checker.py.

read_csv_dicts(file) == IF file.lines THEN file.rows ELSE <<>>

norm(s) == IF s = None THEN "" ELSE Strip(s)

is_null(s, null_values) == norm(s) \in null_values

check_columns(sub_cols, required) ==
  [missing |-> SelectSeq(required, LAMBDA c : c \notin Range(sub_cols)),
   extra |-> SelectSeq(sub_cols, LAMBDA c : c \notin Range(required))]

build_key(row, t) ==
  IF t = "subtask1"
  THEN <<norm(Get(row, "user_id", "")), norm(Get(row, "text_id", ""))>>
  ELSE <<norm(Get(row, "user_id", ""))>>

load_template_keys(file, t) ==
  {build_key(read_csv_dicts(file)[i], t) : i \in 1..Len(read_csv_dicts(file))}

\* The (key, field) entries one row adds to null_entries.
NullFields(r, pred_fields, null_values) ==
  SelectSeq(pred_fields, LAMBDA pf : pf \notin DOMAIN r \/ is_null(Get(r, pf, ""), null_values))

Tagged(key, fields) == [i \in 1..Len(fields) |-> <<key, fields[i]>>]

\* The body of the loop over the submission's rows.
ScanRow(acc, r, key, pred_fields, null_values) ==
  [keys |-> acc.keys \cup {key},
   seen |-> acc.seen \cup {key},
   duplicate_keys |-> IF key \in acc.seen THEN Append(acc.duplicate_keys, key)
                      ELSE acc.duplicate_keys,
   null_entries |-> acc.null_entries \o Tagged(key, NullFields(r, pred_fields, null_values))]

RECURSIVE ScanRows(_, _, _, _, _)
ScanRows(acc, rows, t, pred_fields, null_values) ==
  IF rows = <<>> THEN acc
  ELSE ScanRows(ScanRow(acc, Head(rows), build_key(Head(rows), t), pred_fields, null_values),
                Tail(rows), t, pred_fields, null_values)

load_submission_keys_and_nulls(file, t, required, null_values) ==
  ScanRows([keys |-> {}, seen |-> {}, duplicate_keys |-> <<>>, null_entries |-> <<>>],
           read_csv_dicts(file), t, SelectSeq(required, StartsWithPred), null_values)

\* What a run of the check gives: the return code and the lines printed.
Checked(rc, out) == [rc |-> rc, printed |-> out]

Line(cond, text) == IF cond THEN <<text>> ELSE <<>>

\* The report counting a repeated key as a failure.
ReportDuplicatesFail(early, missing_rows, extra_rows, duplicates, nulls_in_template) ==
  Checked(IF missing_rows # {} \/ duplicates # <<>> \/ nulls_in_template # <<>> THEN 2 ELSE 0,
          early \o Line(duplicates # <<>>, "FAIL: duplicate rows"))

\* Steps 4 and 5: the report and the exit code.
Report(early, missing_rows, extra_rows, duplicates, nulls_in_template) ==
  Checked(IF missing_rows # {} \/ nulls_in_template # <<>> THEN 2 ELSE 0,
          early
            \o Line(missing_rows # {}, "FAIL: submission is missing rows present in template")
            \o Line(extra_rows # {}, "WARN: submission contains rows not in template")
            \o Line(duplicates # <<>>, "WARN: duplicate rows")
            \o Line(nulls_in_template # <<>>, "FAIL: prediction cells that are null or missing")
            \o Line(missing_rows # {} \/ nulls_in_template # <<>>, "FORMAT CHECK: DID NOT PASS"))

\* The last line of a run that passed.
Passed(R) ==
  IF R.rc # 0 THEN R
  ELSE IF R.printed # <<>>
       THEN Checked(0, Append(R.printed, "FORMAT CHECK: PASSED (warnings were printed)."))
       ELSE Checked(0, Append(R.printed, "FORMAT CHECK: PASSED."))

\* Step 3: the keys of the template and of the submission, the null cells.
CompareKeys(early, tkeys, scan) ==
  Passed(Report(
    early \o Line(\E i \in 1..Len(scan.null_entries) : scan.null_entries[i][1] \notin tkeys,
                  "WARN: null prediction cells found in rows not in template"),
    tkeys \ scan.keys,
    scan.keys \ tkeys,
    scan.duplicate_keys,
    SelectSeq(scan.null_entries, LAMBDA e : e[1] \in tkeys)))

\* Step 2: the header of the submission against the columns of the task.
CheckHeader(t, sub, tmpl, header, required, null_values) ==
  IF \E i \in 1..Len(KEY_COLUMNS_DEFAULT[t]) : KEY_COLUMNS_DEFAULT[t][i] \notin Range(header)
  THEN Checked(2, <<"FAIL: submission is missing key column(s)">>)
  ELSE IF check_columns(header, required).missing # <<>>
  THEN Checked(2, <<"FAIL: missing required columns">>)
  ELSE CompareKeys(Line(check_columns(header, required).extra # <<>>,
                        "WARN: extra columns detected"),
                   load_template_keys(tmpl, t),
                   load_submission_keys_and_nulls(sub, t, required, null_values))

\* run_format_check(task, submission_path, assets_dir) with the default
\* templates, required columns and null values.
run_format_check(t, sub, tmpl) ==
  IF ~sub.exists THEN Checked(2, <<"ERROR: submission file not found">>)
  ELSE IF t \notin DOMAIN TEMPLATES_DEFAULT THEN Checked(2, <<"ERROR: unknown task">>)
  ELSE IF ~tmpl.exists THEN Checked(2, <<"ERROR: template not found">>)
  ELSE IF ~sub.lines THEN Checked(2, <<"ERROR: empty submission file">>)
  ELSE CheckHeader(t, sub, tmpl, [i \in 1..Len(sub.header) |-> Strip(sub.header[i])],
                   REQUIRED_COLUMNS_DEFAULT[t], NULL_VALUES_DEFAULT)

-----------------------------------------------------------------------------
\* eval_interface.py.

\* _read_csv_map(path, key_cols): the exception raised ("" when none is),
\* the map from key to the first row with that key, and the repeated keys.
KeyOf(r, key_cols) == [i \in 1..Len(key_cols) |-> Strip(Get(r, key_cols[i], ""))]

FirstRow(rows, key, key_cols) ==
  rows[CHOOSE i \in 1..Len(rows) :
         /\ KeyOf(rows[i], key_cols) = key
         /\ \A j \in 1..(i - 1) : KeyOf(rows[j], key_cols) # key]

RowMap(rows, key_cols) ==
  [key \in {KeyOf(rows[i], key_cols) : i \in 1..Len(rows)} |-> FirstRow(rows, key, key_cols)]

RowKeys(rows, key_cols) ==
  [i \in 1..Len(rows) |-> KeyOf(rows[i], key_cols)]

RepeatedKeys(keys) ==
  SelectSeq([i \in 1..Len(keys) |-> [key |-> keys[i],
                                      again |-> \E j \in 1..(i - 1) : keys[j] = keys[i]]],
            LAMBDA e : e.again)

_read_csv_map(file, key_cols) ==
  IF ~file.exists
  THEN [exc |-> "FileNotFoundError", m |-> <<>>, duplicates |-> <<>>]
  ELSE [exc |-> "",
        m |-> RowMap(read_csv_dicts(file), key_cols),
        duplicates |-> RepeatedKeys(RowKeys(read_csv_dicts(file), key_cols))]

\* float(s) of a stripped string: the number, or NaN where float() raises.
ParseFloat(s) == IF s = "1" THEN Num(1) ELSE IF s = "2" THEN Num(2) ELSE NaN

_safe_float(s) ==
  IF s = None THEN NaN
  ELSE IF Strip(s) = "" \/ Lower(Strip(s)) \in {"none", "null"} THEN NaN
  ELSE ParseFloat(Strip(s))

\* The dimension evaluate_submission scores when none is given.
Dimension == "valence"

-----------------------------------------------------------------------------
\* The state machine: the caller builds the parallel sequences one
\* observation at a time (eval_interface.py:135-162 appends them in sorted
\* key order, so the users come in nondecreasing order), then calls the core.

InputValues == {NaN} \cup {Num(v) : v \in Vals}

\* No call of the core has been made.
CoreIdle ==
  /\ scipy_p2 \in ScipyVariants
  /\ user_ids = <<>>
  /\ predictions = <<>>
  /\ labels = <<>>
  /\ pc = "input"
  /\ outcome = "none"
  /\ exc = ""
  /\ unique_users = <<>>
  /\ per_user_r = <<>>
  /\ per_user_p = <<>>
  /\ r_vals = <<>>
  /\ pearson_users = <<>>
  /\ p_vals = <<>>
  /\ r_within = Unset
  /\ p_within = PUnset
  /\ user_means_pred = <<>>
  /\ user_means_lab = <<>>
  /\ r_between = Unset
  /\ p_between = PUnset
  /\ mae_within_list = <<>>
  /\ mae_within = Unset
  /\ mae_between = Unset
  /\ r_composite = Unset
  /\ mae_composite = Unset
  /\ task2_calls = {}

\* No file is given and evaluate_submission is not run.
InterfaceIdle ==
  /\ task = "none"
  /\ submission = NoFile
  /\ template = NoFile
  /\ labels_file = NoFile
  /\ step = "idle"
  /\ format_runs = <<>>
  /\ printed = <<>>
  /\ template_keys = {}
  /\ sub_map = <<>>
  /\ labels_map = <<>>
  /\ todo = <<>>
  /\ row_users = <<>>
  /\ row_texts = <<>>
  /\ row_preds = <<>>
  /\ row_labs = <<>>
  /\ missing_submission_keys = <<>>
  /\ missing_label_keys = <<>>
  /\ status = "none"

Init == CoreIdle /\ InterfaceIdle

task1_locals == <<unique_users, per_user_r, per_user_p, r_vals, pearson_users, p_vals,
                  r_within, p_within, user_means_pred, user_means_lab, r_between,
                  p_between, mae_within_list, mae_within, mae_between, r_composite,
                  mae_composite>>

\* The rank of the next observation's user: the last user's or the next one.
NextUsers ==
  IF user_ids = <<>> THEN {1}
  ELSE {user_ids[Len(user_ids)], user_ids[Len(user_ids)] + 1}

\* subtask1: one more (user, text) key is appended (eval_interface.py:150-159).
AddObservation(u, p, l) ==
  /\ pc = "input"
  /\ Len(user_ids) < MaxObs
  /\ u \in NextUsers
  /\ user_ids' = Append(user_ids, u)
  /\ predictions' = Append(predictions, p)
  /\ labels' = Append(labels, l)
  /\ UNCHANGED <<scipy_p2, pc, outcome, exc, task1_locals, task2_calls, interface_vars>>

\* subtask2a/2b: the key is the user alone, so every row is a new user
\* (eval_interface.py:150-162).
AddSubject(p, l) ==
  /\ pc = "input"
  /\ Len(user_ids) < MaxObs
  /\ user_ids' = Append(user_ids, Len(user_ids) + 1)
  /\ predictions' = Append(predictions, p)
  /\ labels' = Append(labels, l)
  /\ UNCHANGED <<scipy_p2, pc, outcome, exc, task1_locals, task2_calls, interface_vars>>

\* The locals of the finished call become the state.
StoreTask1(T) ==
  /\ outcome' = T.outcome
  /\ exc' = T.exc
  /\ unique_users' = T.unique_users
  /\ per_user_r' = T.per_user_r
  /\ per_user_p' = T.per_user_p
  /\ r_vals' = T.r_vals
  /\ pearson_users' = T.pearson_users
  /\ p_vals' = T.p_vals
  /\ r_within' = T.r_within
  /\ p_within' = T.p_within
  /\ user_means_pred' = T.user_means_pred
  /\ user_means_lab' = T.user_means_lab
  /\ r_between' = T.r_between
  /\ p_between' = T.p_between
  /\ mae_within_list' = T.mae_within_list
  /\ mae_within' = T.mae_within
  /\ mae_between' = T.mae_between
  /\ r_composite' = T.r_composite
  /\ mae_composite' = T.mae_composite

\* eval_interface.py:181
CallTask1 ==
  /\ pc = "input"
  /\ StoreTask1(task1_correlation(user_ids, predictions, labels, scipy_p2))
  /\ pc' = "task1"
  /\ UNCHANGED <<scipy_p2, user_ids, predictions, labels, task2_calls, interface_vars>>

\* The user_ids arguments a call of task2_correlation is made with: None, the
\* users of the rows (eval_interface.py:184), or one user for all rows.
UserIdsArgs == {"None", "users", "one_user"}

UserIdsArg(name) ==
  IF name = "None" THEN NoUserIds
  ELSE IF name = "users" THEN UserIds(user_ids)
  ELSE UserIds([i \in 1..Len(user_ids) |-> 1])

StoreTask2(name, T) ==
  /\ outcome' = IF T.exc = "" THEN "returned" ELSE "raised"
  /\ exc' = T.exc
  /\ task2_calls' = task2_calls \cup {[arg |-> name, exc |-> T.exc, result |-> T.result]}

\* eval_interface.py:184, and the same call with another user_ids argument.
CallTask2(name) ==
  /\ pc \in {"input", "task2"}
  /\ \A c \in task2_calls : c.arg # name
  /\ StoreTask2(name, task2_correlation(UserIdsArg(name), predictions, labels, scipy_p2))
  /\ pc' = "task2"
  /\ UNCHANGED <<scipy_p2, user_ids, predictions, labels, task1_locals, interface_vars>>

Next ==
  \/ \E u \in 1..MaxObs, p \in InputValues, l \in InputValues : AddObservation(u, p, l)
  \/ CallTask1

Spec == Init /\ [][Next]_vars

NextTask2 ==
  \/ \E p \in InputValues, l \in InputValues : AddSubject(p, l)
  \/ \E name \in UserIdsArgs : CallTask2(name)

SpecTask2 == Init /\ [][NextTask2]_vars

-----------------------------------------------------------------------------
\* The files a run is given.  Users and row_texts are written as in the
\* template, except that the submission writes u2 with a trailing blank.

AllTasks == DOMAIN TEMPLATES_DEFAULT \cup {"subtask3"}

\* The columns of the task the files are written for.
Shape(t) == IF t \in DOMAIN TEMPLATES_DEFAULT THEN t ELSE "subtask2a"

Cells(kind, c) ==
  IF Strip(c) = "user_id" THEN (IF kind = "submission" THEN {"u1", "u2 "} ELSE {"u1", "u2"})
  ELSE IF Strip(c) = "text_id" THEN {"t1", "t2"}
  ELSE IF Strip(c) = "notes" THEN {"x"}
  ELSE IF kind = "labels" THEN {"1", "2"}
  ELSE IF kind = "scored" THEN {"1"}
  ELSE {"1", "NULL "}

\* The keys of the model: text t2 belongs to user u1.
ModelKey(r) == Strip(Get(r, "text_id", "t1")) = "t2" => Strip(Get(r, "user_id", "u1")) = "u1"

\* The dicts over the columns cols, a cell for each column.
RECURSIVE RowsOver(_, _)
RowsOver(kind, cols) ==
  IF cols = {} THEN {<<>>}
  ELSE {((CHOOSE c \in cols : TRUE) :> v) @@ r :
          v \in Cells(kind, CHOOSE c \in cols : TRUE),
          r \in RowsOver(kind, cols \ {CHOOSE c \in cols : TRUE})}

\* The submission's rows: in the interface runs the column that is not
\* scored holds a number.
SubmissionRows(t, header, wide) ==
  {r \in {s @@ o : s \in RowsOver("submission", Range(header) \ {PRED_COLS_DEFAULT[t].arousal}),
                   o \in RowsOver(IF wide THEN "submission" ELSE "scored",
                                  Range(header) \cap {PRED_COLS_DEFAULT[t].arousal})} :
     ModelKey(r)}

KeyLeq(a, b) == a = b \/ KeyLess(a, b)

\* The sequences of at most n rows, in the order of their keys; strict says
\* whether a key may come twice.
RowSeqs(R, t, n, strict) ==
  {rs \in UNION {[1..k -> R] : k \in 0..n} :
     \A i \in 1..(Len(rs) - 1) :
       IF strict THEN KeyLess(build_key(rs[i], t), build_key(rs[i + 1], t))
       ELSE KeyLeq(build_key(rs[i], t), build_key(rs[i + 1], t))}

File(header, rows) == [exists |-> TRUE, lines |-> TRUE, header |-> header, rows |-> rows]

RowBound(t) == IF t \in DOMAIN TEMPLATES_DEFAULT THEN MaxRows ELSE 0

\* The headers a submission comes with: the required columns; one more
\* column; the first key column missing; the last prediction column missing;
\* the scored prediction column written with a trailing blank.
HeaderVariants(t) ==
  {REQUIRED_COLUMNS_DEFAULT[t],
   Append(REQUIRED_COLUMNS_DEFAULT[t], "notes"),
   Tail(REQUIRED_COLUMNS_DEFAULT[t]),
   SubSeq(REQUIRED_COLUMNS_DEFAULT[t], 1, Len(REQUIRED_COLUMNS_DEFAULT[t]) - 1),
   [i \in 1..Len(REQUIRED_COLUMNS_DEFAULT[t]) |->
      IF REQUIRED_COLUMNS_DEFAULT[t][i] = PRED_COLS_DEFAULT[t][Dimension]
      THEN REQUIRED_COLUMNS_DEFAULT[t][i] \o " " ELSE REQUIRED_COLUMNS_DEFAULT[t][i]]}

FilesWith(t, headers, wide, n) ==
  {NoFile, EmptyFile}
    \cup UNION {{File(h, rs) : rs \in RowSeqs(SubmissionRows(t, h, wide), t, n, FALSE)} :
                  h \in headers}

\* The submissions the format checker is run on.
Submissions(t) == FilesWith(Shape(t), HeaderVariants(Shape(t)), TRUE, RowBound(t))

\* The submissions evaluate_submission is run on.
ScoredSubmissions(t) ==
  FilesWith(Shape(t), {REQUIRED_COLUMNS_DEFAULT[Shape(t)]}, FALSE, RowBound(t))

Templates(t) ==
  {NoFile} \cup {File(KEY_COLUMNS_DEFAULT[Shape(t)], rs) :
                   rs \in RowSeqs({r \in RowsOver("template", Range(KEY_COLUMNS_DEFAULT[Shape(t)])) :
                                     ModelKey(r)},
                                  Shape(t), RowBound(t), TRUE)}

LabelsHeader(t) == Append(KEY_COLUMNS_DEFAULT[t], LABEL_COLS_DEFAULT[t][Dimension])

LabelFiles(t) ==
  {NoFile} \cup {File(LabelsHeader(Shape(t)), rs) :
                   rs \in RowSeqs({r \in RowsOver("labels", Range(LabelsHeader(Shape(t)))) :
                                     ModelKey(r)},
                                  Shape(t), RowBound(t), FALSE)}

-----------------------------------------------------------------------------
\* format_checker.py run by itself (_cli_main).

NotStarted ==
  /\ step = "start"
  /\ format_runs = <<>>
  /\ printed = <<>>
  /\ template_keys = {}
  /\ sub_map = <<>>
  /\ labels_map = <<>>
  /\ todo = <<>>
  /\ row_users = <<>>
  /\ row_texts = <<>>
  /\ row_preds = <<>>
  /\ row_labs = <<>>
  /\ missing_submission_keys = <<>>
  /\ missing_label_keys = <<>>
  /\ status = "none"

InitFormat ==
  /\ CoreIdle
  /\ task \in AllTasks
  /\ submission \in Submissions(task)
  /\ template \in Templates(task)
  /\ labels_file = NoFile
  /\ NotStarted

StoreFormat(R) ==
  /\ format_runs' = Append(format_runs, R.rc)
  /\ printed' = R.printed

RunFormatCheck ==
  /\ step = "start"
  /\ StoreFormat(run_format_check(task, submission, template))
  /\ step' = "end"
  /\ UNCHANGED <<core_vars, files, loaded, arrays, status>>

NextFormat == RunFormatCheck

SpecFormat == InitFormat /\ [][NextFormat]_vars

-----------------------------------------------------------------------------
\* evaluate_submission(task, submission_path, labels_path), step by step.

InitInterface ==
  /\ CoreIdle
  /\ task \in AllTasks
  /\ submission \in ScoredSubmissions(task)
  /\ template \in Templates(task)
  /\ labels_file \in LabelFiles(task)
  /\ NotStarted

\* 1) the format checker, for the tasks it is run for.
FormatFailed ==
  /\ status' = "format_fail"
  /\ step' = "end"

FormatVerdict(R) ==
  /\ StoreFormat(R)
  /\ IF R.rc # 0 THEN FormatFailed ELSE (step' = "load" /\ UNCHANGED status)

FormatStep ==
  /\ step = "start"
  /\ IF task # "subtask1"
     THEN FormatVerdict(run_format_check(task, submission, template))
     ELSE step' = "load" /\ UNCHANGED <<format_runs, printed, status>>
  /\ UNCHANGED <<core_vars, files, loaded, arrays>>

\* An exception leaves evaluate_submission.
Raise(e) ==
  /\ outcome' = "raised"
  /\ exc' = e
  /\ status' = "raised"
  /\ step' = "end"

Stop(s) ==
  /\ status' = s
  /\ step' = "end"
  /\ UNCHANGED <<outcome, exc>>

\* 2) and 3) the template's keys, the submission and the labels.
Loaded(keys, S, L) ==
  IF ~template.exists \/ S.exc # "" THEN Raise("FileNotFoundError") /\ UNCHANGED loaded
  ELSE IF S.duplicates # <<>> THEN Stop("duplicate_error") /\ UNCHANGED loaded
  ELSE IF L.exc # "" THEN Raise("FileNotFoundError") /\ UNCHANGED loaded
  ELSE IF L.duplicates # <<>> THEN Stop("label_duplicate_error") /\ UNCHANGED loaded
  ELSE /\ template_keys' = keys
       /\ sub_map' = S.m
       /\ labels_map' = L.m
       /\ todo' = SortedKeys(keys)
       /\ step' = "loop"
       /\ UNCHANGED <<outcome, exc, status>>

LoadStep ==
  /\ step = "load"
  /\ Loaded(load_template_keys(template, task),
            _read_csv_map(submission, KEY_COLUMNS_DEFAULT[task]),
            _read_csv_map(labels_file, KEY_COLUMNS_DEFAULT[task]))
  /\ UNCHANGED <<scipy_p2, user_ids, predictions, labels, pc, task1_locals, task2_calls,
                 files, format_runs, printed, arrays>>

\* 4) one turn of the loop over sorted(template_keys).
AppendRow(key) ==
  /\ row_preds' = Append(row_preds, _safe_float(Get(sub_map[key], PRED_COLS_DEFAULT[task][Dimension], None)))
  /\ row_labs' = Append(row_labs, _safe_float(Get(labels_map[key], LABEL_COLS_DEFAULT[task][Dimension], None)))
  /\ row_users' = Append(row_users, key[1])
  /\ row_texts' = Append(row_texts, IF task = "subtask1" THEN key[2] ELSE "")
  /\ UNCHANGED <<missing_submission_keys, missing_label_keys>>

\* The loop appending the user and the text of a key before it looks the
\* key up in the labels.
LoopTurnUsersFirst(key) ==
  IF key \notin DOMAIN sub_map
  THEN /\ missing_submission_keys' =
            IF task = "subtask1" THEN missing_submission_keys
            ELSE Append(missing_submission_keys, key)
       /\ UNCHANGED <<row_users, row_texts, row_preds, row_labs, missing_label_keys>>
  ELSE IF key \notin DOMAIN labels_map
  THEN /\ row_users' = Append(row_users, key[1])
       /\ row_texts' = Append(row_texts, IF task = "subtask1" THEN key[2] ELSE "")
       /\ missing_label_keys' =
            IF task = "subtask1" THEN missing_label_keys
            ELSE Append(missing_label_keys, key)
       /\ UNCHANGED <<row_preds, row_labs, missing_submission_keys>>
  ELSE AppendRow(key)

LoopTurn(key) ==
  IF key \notin DOMAIN sub_map
  THEN /\ missing_submission_keys' =
            IF task = "subtask1" THEN missing_submission_keys
            ELSE Append(missing_submission_keys, key)
       /\ UNCHANGED <<row_users, row_texts, row_preds, row_labs, missing_label_keys>>
  ELSE IF key \notin DOMAIN labels_map
  THEN /\ missing_label_keys' =
            IF task = "subtask1" THEN missing_label_keys
            ELSE Append(missing_label_keys, key)
       /\ UNCHANGED <<row_users, row_texts, row_preds, row_labs, missing_submission_keys>>
  ELSE AppendRow(key)

LoopStep ==
  /\ step = "loop"
  /\ todo # <<>>
  /\ LoopTurn(Head(todo))
  /\ todo' = Tail(todo)
  /\ UNCHANGED <<core_vars, files, step, format_runs, printed, template_keys, sub_map,
                 labels_map, status>>

\* The rows found missing, once the loop is over.
EndLoop ==
  /\ step = "loop"
  /\ todo = <<>>
  /\ IF missing_submission_keys # <<>> THEN Stop("submission_missing_rows")
     ELSE IF missing_label_keys # <<>> THEN Stop("label_missing_rows")
     ELSE step' = "metrics" /\ UNCHANGED <<outcome, exc, status>>
  /\ UNCHANGED <<scipy_p2, user_ids, predictions, labels, pc, task1_locals, task2_calls,
                 files, format_runs, printed, loaded, arrays>>

\* np.unique orders the row_users as strings: a user goes by its rank.
UserRanks(us) == [i \in 1..Len(us) |-> StrRank(us[i])]

\* 5) the metric function of the task, and the status of a run it returns to.
ComputeMetrics ==
  /\ step = "metrics"
  /\ user_ids' = UserRanks(row_users)
  /\ predictions' = row_preds
  /\ labels' = row_labs
  /\ IF task = "subtask1"
     THEN /\ StoreTask1(task1_correlation(UserRanks(row_users), row_preds, row_labs, scipy_p2))
          /\ pc' = "task1"
          /\ UNCHANGED task2_calls
     ELSE /\ StoreTask2("row_users", task2_correlation(UserIds(UserRanks(row_users)), row_preds, row_labs, scipy_p2))
          /\ pc' = "task2"
          /\ UNCHANGED task1_locals
  /\ status' = IF outcome' = "returned" THEN "ok" ELSE "raised"
  /\ step' = "end"
  /\ UNCHANGED <<scipy_p2, files, format_runs, printed, loaded, arrays>>

NextInterface ==
  \/ FormatStep
  \/ LoadStep
  \/ LoopStep
  \/ EndLoop
  \/ ComputeMetrics

SpecInterface == InitInterface /\ [][NextInterface]_vars

-----------------------------------------------------------------------------
\* The claims.  What a claim says of the input is written here from the
\* input sequences themselves, not from the locals of the call.

Users == {user_ids[i] : i \in 1..Len(user_ids)}

ObsOf(u) == {i \in 1..Len(user_ids) : user_ids[i] = u}

\* The values at the observations of u are finite and all the same.
AllSame(xs, u) == \A i, j \in ObsOf(u) : IsFin(xs[i]) /\ xs[i] = xs[j]

LabelVarianceZero(u) == AllSame(labels, u)

PredictionVarianceZero(u) == AllSame(predictions, u)

\* A group the within-person correlation retains, by the rule of the spec.
Retained(u) == Cardinality(ObsOf(u)) >= 2 /\ ~LabelVarianceZero(u)

KeptR == {per_user_r[i].user : i \in 1..Len(per_user_r)}

KeptP == {per_user_p[i].user : i \in 1..Len(per_user_p)}

\* The observations in S where neither the prediction nor the label is NaN.
ValidPairs(S) == {i \in S : IsFin(predictions[i]) /\ IsFin(labels[i])}

RECURSIVE AbsErrorSum(_)
AbsErrorSum(S) ==
  IF S = {} THEN 0
  ELSE Abs(predictions[MinOf(S)].n - labels[MinOf(S)].n) + AbsErrorSum(S \ {MinOf(S)})

\* The mean of |prediction - label| over the valid pairs of S, NaN when
\* there is none (the inputs of the model are whole numbers).
ExpectedMae(S) ==
  IF ValidPairs(S) = {} THEN NaN
  ELSE Rat(AbsErrorSum(ValidPairs(S)), Cardinality(ValidPairs(S)))

RECURSIVE ValueSum(_, _)
ValueSum(xs, S) == IF S = {} THEN 0 ELSE xs[MinOf(S)].n + ValueSum(xs, S \ {MinOf(S)})

\* The mean of the values of xs at S that are not NaN, NaN when there is none.
ExpectedNanMean(xs, S) ==
  IF {i \in S : IsFin(xs[i])} = {} THEN NaN
  ELSE Rat(ValueSum(xs, {i \in S : IsFin(xs[i])}), Cardinality({i \in S : IsFin(xs[i])}))

AbsAtLeastOne(x) == IsFin(x) /\ Abs(x.n) >= x.d

\* C1: a call of task1_correlation in which no user group is retained (every
\* user has one observation or zero label variance, the empty input
\* included) returns a record with r_within = NaN and does not raise.
C1_NoGroupRetainedReturnsNaN ==
  (pc = "task1" /\ \A u \in Users : ~Retained(u))
    => (outcome = "returned" /\ exc = "" /\ IsNaN(r_within))

\* C2: in every result task1_correlation returns, r_composite is NaN whenever
\* r_within or r_between is NaN or has absolute value >= 1.
C2_CompositeNaNOutsideOpenInterval ==
  (pc = "task1" /\ outcome = "returned"
     /\ (IsNaN(r_within) \/ IsNaN(r_between)
           \/ AbsAtLeastOne(r_within) \/ AbsAtLeastOne(r_between)))
    => IsNaN(r_composite)

\* C3: a user with exactly one observation adds no value to the list
\* averaged into r_within and no p-value to the count of p_within, and adds
\* its per-user MAE to the list averaged into mae_within.
C3_SingleObservationUser ==
  pc = "task1" =>
    \A u \in Users :
      Cardinality(ObsOf(u)) = 1 =>
        /\ u \notin KeptR
        /\ u \notin KeptP
        /\ Len(r_vals) = Len(per_user_r)
        /\ Len(p_vals) = Len(per_user_p)
        /\ \E i \in 1..Len(mae_within_list) :
             /\ unique_users[i] = u
             /\ mae_within_list[i] = ExpectedMae(ObsOf(u))

\* What remains of C3 on the calls that return.
SingleObservationUserWhenReturned ==
  (pc = "task1" /\ outcome = "returned") => C3_SingleObservationUser

\* C4: a group with at least 2 observations and zero label variance adds
\* nothing to r_vals or p_vals, also when its predictions are constant too:
\* exactly the retained groups are appended, one value each.
C4_ZeroLabelVarianceExcluded ==
  pc = "task1" =>
    /\ \A u \in Users :
         (Cardinality(ObsOf(u)) >= 2 /\ LabelVarianceZero(u)) => (u \notin KeptR /\ u \notin KeptP)
    /\ KeptR = {u \in Users : Retained(u)}
    /\ KeptP = KeptR
    /\ Len(r_vals) = Cardinality(KeptR)
    /\ Len(p_vals) = Cardinality(KeptR)
    /\ Len(per_user_r) = Len(r_vals)
    /\ Len(per_user_p) = Len(p_vals)

\* C4's case: a call made with a group of two or more observations whose
\* labels and predictions are both constant.
C4_Witness ==
  /\ pc = "task1"
  /\ \E u \in Users :
       Cardinality(ObsOf(u)) >= 2 /\ LabelVarianceZero(u) /\ PredictionVarianceZero(u)

C6_OnePairPerUser ==
  pc = "task1" =>
    /\ Len(user_means_pred) = Cardinality(Users)
    /\ Len(user_means_lab) = Cardinality(Users)
    /\ \A i \in 1..Len(unique_users) :
         /\ user_means_pred[i] = ExpectedNanMean(predictions, ObsOf(unique_users[i]))
         /\ user_means_lab[i] = ExpectedNanMean(labels, ObsOf(unique_users[i]))

\* What remains of C6 on the calls that return.
OnePairPerUserWhenReturned ==
  (pc = "task1" /\ outcome = "returned") => C6_OnePairPerUser

\* C7: _pearson gives (NaN, None) without raising below 2 samples, so
\* r_between is NaN and p_between is None when there are fewer than 2
\* distinct users, and task2_correlation gives r = NaN, p = None for inputs
\* of length 0 or 1.
C7_FewerThanTwoSamples ==
  /\ (pc = "task1" /\ Cardinality(Users) < 2)
       => (outcome = "returned" /\ IsNaN(r_between) /\ p_between.k = "none")
  /\ \A c \in task2_calls :
       Len(predictions) < 2 => (c.exc = "" /\ IsNaN(c.result.r) /\ c.result.p.k = "none")

\* What remains of C7 on the calls that return, and of task2_correlation.
FewerThanTwoSamplesWhenReturned ==
  /\ (pc = "task1" /\ outcome = "returned" /\ Cardinality(Users) < 2)
       => (IsNaN(r_between) /\ p_between.k = "none")
  /\ \A c \in task2_calls :
       Len(predictions) < 2 => (c.exc = "" /\ IsNaN(c.result.r) /\ c.result.p.k = "none")

\* C8: the per-user MAE is the mean of |x - y| over the pairs without a NaN
\* and NaN when every pair has one; mae_within is the NaN-aware mean of the
\* per-user values over all users, and is NaN exactly when every user's MAE
\* is NaN.
C8_MaeWithin ==
  pc = "task1" =>
    /\ Len(mae_within_list) = Len(unique_users)
    /\ \A i \in 1..Len(unique_users) :
         mae_within_list[i] = ExpectedMae(ObsOf(unique_users[i]))
    /\ mae_within = NpNanMean(mae_within_list)
    /\ IsNaN(mae_within) <=> (\A u \in Users : ValidPairs(ObsOf(u)) = {})

\* What remains of C8 on the calls that return.
MaeWithinWhenReturned ==
  (pc = "task1" /\ outcome = "returned") => C8_MaeWithin

RECURSIVE Product(_)
Product(ns) == IF ns = <<>> THEN 1 ELSE Head(ns) * Product(Tail(ns))

\* max(p, 1e-10) of a numeric p-value.
Floored(p) == IF PGreater([k |-> "num", n |-> 1, a |-> 0, b |-> 1], p)
              THEN [k |-> "num", n |-> 1, a |-> 0, b |-> 1] ELSE p

FlooredPVals == [i \in 1..Len(p_vals) |-> Floored(p_vals[i])]

\* p_within * sum(1/q_i) = count for the floored p-values q_i = n_i/(a_i + b_i*E),
\* multiplied out by the product of the n_i and compared part by part.
HarmonicIdentity(qs) ==
  /\ p_within.k = "num"
  /\ \A i \in 1..Len(qs) : qs[i].n > 0
  /\ p_within.n * IntSum([i \in 1..Len(qs) |->
                            qs[i].a * (Product([j \in 1..Len(qs) |-> qs[j].n]) \div qs[i].n)])
       = Len(qs) * Product([j \in 1..Len(qs) |-> qs[j].n]) * p_within.a
  /\ p_within.n * IntSum([i \in 1..Len(qs) |->
                            qs[i].b * (Product([j \in 1..Len(qs) |-> qs[j].n]) \div qs[i].n)])
       = Len(qs) * Product([j \in 1..Len(qs) |-> qs[j].n]) * p_within.b

-----------------------------------------------------------------------------
\* The claims about the files, read off the files themselves.

KnownTask == task \in {"subtask1", "subtask2a", "subtask2b"}

\* The cell of a row under a column, blanks around it dropped; "" where the
\* row has no such column.
StrippedCell(r, c) == IF c \in DOMAIN r THEN Strip(r[c]) ELSE ""

FileKey(r) ==
  IF task = "subtask1" THEN <<StrippedCell(r, "user_id"), StrippedCell(r, "text_id")>>
  ELSE <<StrippedCell(r, "user_id")>>

KeySetOf(file) == {FileKey(file.rows[i]) : i \in 1..Len(file.rows)}

TemplateKeySet == KeySetOf(template)

SubmissionKeySet == KeySetOf(submission)

LabelsKeySet == KeySetOf(labels_file)

HeaderNames == {Strip(submission.header[i]) : i \in 1..Len(submission.header)}

RequiredNames == Range(REQUIRED_COLUMNS_DEFAULT[task])

PredictionColumns == {PRED_COLS_DEFAULT[task].valence, PRED_COLS_DEFAULT[task].arousal}

\* The row has no cell under the column, or a cell with a null value.
NullCell(r, c) == c \notin DOMAIN r \/ Strip(r[c]) \in {"", "NULL", "null", "None", "none"}

HasNullCell(r) == \E c \in PredictionColumns : NullCell(r, c)

MissingColumn == \E c \in RequiredNames : c \notin HeaderNames

MissingTemplateKey == TemplateKeySet \ SubmissionKeySet # {}

NullInTemplate ==
  \E i \in 1..Len(submission.rows) :
    FileKey(submission.rows[i]) \in TemplateKeySet /\ HasNullCell(submission.rows[i])

\* The failure conditions of the format check.
FailureCondition ==
  \/ ~submission.exists
  \/ ~KnownTask
  \/ ~template.exists
  \/ ~submission.lines
  \/ MissingColumn
  \/ MissingTemplateKey
  \/ NullInTemplate

ExtraColumn == \E c \in HeaderNames : c \notin RequiredNames

ExtraRow == SubmissionKeySet \ TemplateKeySet # {}

DuplicateKey ==
  \E i, j \in 1..Len(submission.rows) :
    i < j /\ FileKey(submission.rows[i]) = FileKey(submission.rows[j])

NullOutsideTemplate ==
  \E i \in 1..Len(submission.rows) :
    FileKey(submission.rows[i]) \notin TemplateKeySet /\ HasNullCell(submission.rows[i])

MetricCalled == pc \in {"task1", "task2"}

\* C11: the metric functions of eval.py are invoked only after
\* run_format_check has been run on the submission and has returned 0, for
\* every task.
C11_FormatCheckBeforeMetrics ==
  MetricCalled => format_runs = <<0>>

\* What remains of C11 for the tasks other than subtask1.
FormatCheckBeforeMetricsTask2 ==
  (MetricCalled /\ task # "subtask1") => format_runs = <<0>>

\* C12: run_format_check returns 0 or 2, and 2 exactly when a failure
\* condition holds; extra columns, rows outside the template, repeated keys
\* and null cells in rows outside the template never turn a 0 into a 2.
C12_FormatCheckResult ==
  format_runs # <<>> =>
    /\ Len(format_runs) = 1
    /\ format_runs[1] \in {0, 2}
    /\ format_runs[1] = 2 <=> FailureCondition
    /\ printed # <<>>
    /\ format_runs[1] = 0 =>
         printed[Len(printed)] \in {"FORMAT CHECK: PASSED.",
                                    "FORMAT CHECK: PASSED (warnings were printed)."}

\* C12's case: the check returns 0 on a submission with an extra column, a
\* repeated key and a null cell in a row outside the template, and prints
\* the four warnings.
C12_Witness ==
  /\ format_runs = <<0>>
  /\ ExtraColumn
  /\ ExtraRow
  /\ DuplicateKey
  /\ NullOutsideTemplate
  /\ {"WARN: extra columns detected",
      "WARN: null prediction cells found in rows not in template",
      "WARN: submission contains rows not in template",
      "WARN: duplicate rows"} \subseteq Range(printed)

\* The key the arrays hold at index i.
ArrayKey(i) == IF task = "subtask1" THEN <<row_users[i], row_texts[i]>> ELSE <<row_users[i]>>

\* The number a cell is read as.
CellNumber(s) ==
  IF Strip(s) = "1" THEN Num(1) ELSE IF Strip(s) = "2" THEN Num(2) ELSE NaN

\* Some row of the file has the key and, under the column, the number v.
HasValue(file, key, c, v) ==
  \E j \in 1..Len(file.rows) :
    /\ FileKey(file.rows[j]) = key
    /\ v = IF c \in DOMAIN file.rows[j] THEN CellNumber(file.rows[j][c]) ELSE NaN

\* C13: all along the array-building loop and when the metric function is
\* called, users, texts, preds and labs have one length and are aligned by
\* index, and every key in them is a key of the template, so a submission
\* row outside the template never reaches the core.
C13_ArraysAligned ==
  /\ Len(row_texts) = Len(row_users)
  /\ Len(row_preds) = Len(row_users)
  /\ Len(row_labs) = Len(row_users)
  /\ \A i \in 1..Len(row_users) :
       /\ ArrayKey(i) \in TemplateKeySet
       /\ task # "subtask1" => row_texts[i] = ""
       /\ HasValue(submission, ArrayKey(i), PRED_COLS_DEFAULT[task].valence, row_preds[i])
       /\ HasValue(labels_file, ArrayKey(i), LABEL_COLS_DEFAULT[task].valence, row_labs[i])
       /\ \A j \in 1..(i - 1) : ArrayKey(j) # ArrayKey(i)
  /\ MetricCalled =>
       /\ Len(user_ids) = Len(row_users)
       /\ \A i, j \in 1..Len(row_users) :
            (user_ids[i] = user_ids[j]) <=> (row_users[i] = row_users[j])
       /\ predictions = row_preds
       /\ labels = row_labs

\* C13's case: the metric function is called with a row in the arrays while
\* the submission holds a row whose key is not in the template.
C13_Witness ==
  /\ MetricCalled
  /\ Len(row_users) >= 1
  /\ ExtraRow

\* A template key is absent from the submission or from the labels file.
KeySkipped == \E k \in TemplateKeySet : k \notin SubmissionKeySet \/ k \notin LabelsKeySet

\* The run is over and went through the loop over the template's keys.
LoopDone == step = "end" /\ template_keys # {}

\* The arrays hold the keys found in all three files, and no other.
RemainingKeysOnly ==
  {ArrayKey(i) : i \in 1..Len(row_users)}
    = TemplateKeySet \cap SubmissionKeySet \cap LabelsKeySet

\* C14: for subtask1 the run never ends with submission_missing_rows or
\* label_missing_rows: an absent template key is skipped, the metrics are
\* computed over the remaining keys and the status returned is ok; for
\* subtask2a/2b a template key absent from the submission stops the run
\* before a metric is computed.
C14_MissingRows ==
  /\ task = "subtask1" => status \notin {"submission_missing_rows", "label_missing_rows"}
  /\ (task = "subtask1" /\ KeySkipped /\ LoopDone) =>
       (MetricCalled /\ RemainingKeysOnly /\ status = "ok")
  /\ (task \in {"subtask2a", "subtask2b"} /\ MissingTemplateKey) => ~MetricCalled

\* What remains of C14 when the call of task1_correlation may raise.
MissingRowsUpToTheCall ==
  /\ task = "subtask1" => status \notin {"submission_missing_rows", "label_missing_rows"}
  /\ (task = "subtask1" /\ KeySkipped /\ LoopDone) =>
       /\ MetricCalled
       /\ RemainingKeysOnly
       /\ status = "ok" \/ (status = "raised" /\ exc = "ZeroDivisionError")
  /\ (task \in {"subtask2a", "subtask2b"} /\ MissingTemplateKey) => ~MetricCalled

====
